---- MODULE Spec2Model ----
(***************************************************************************)
(* Model of the loan application system of src/app.py: the four tables of *)
(* loan_app.db, the per-browser session flags of st.session_state, and one *)
(* action per script run that writes to the store.  Several sessions run   *)
(* their scripts concurrently; every sqlite statement is atomic, and a     *)
(* script that reads and then writes is split at its statements.           *)
(***************************************************************************)
EXTENDS Integers, Sequences, FiniteSets, TLC

VARIABLES
    users,          \* rows of table users, in rowid order
    user_profiles,  \* rows of table user_profiles
    loans,          \* rows of table loans
    payments,       \* rows of table payments
    session,        \* st.session_state and the position of the script run
    result,         \* what the last call of register_user returned
    audit,          \* history: what the store held when a row was inserted
    call,           \* a call of a function and what it returned or showed
    raised          \* the exception that ended the last observed Update
                    \* Status run

dbVars == <<users, user_profiles, loans, payments>>
vars == <<users, user_profiles, loans, payments, session, result, audit,
         call, raised>>

----------------------------------------------------------------------------
(* Bounds of the model *)

\* rows in the four tables together, the seeded admin included
MaxRows == 5

\* two browser sessions
Sessions == {1, 2}

(* Inputs typed or selected by the users *)
Usernames == {"admin", "Admin"}
Passwords == {"admin123", "pw"}
NewPasswords == {"pw"}
FullNames == {"Bob B"}
Emails == {"bob@example.com"}
Ages == {30}
Incomes == {100000}
EmploymentOptions == {"Employed"}
PaymentHistories == {950}
LoanAmounts == {100}
LoanTerms == {6}
StatusOptions == {"pending", "approved", "rejected"}

----------------------------------------------------------------------------
(* Values *)

\* Python None / SQL NULL for an integer or timestamp column
None == -1

\* the script run ended without an exception
NoException == ""

\* instants are counted in half seconds; strftime("%Y-%m-%d %H:%M:%S") drops the
\* fraction of the second, timestamps are stored in whole seconds
TicksPerSecond == 2

strftime(t) == t \div TicksPerSecond

\* timedelta(days = d) in ticks
timedelta(d) == d * 86400 * TicksPerSecond

\* the instants, in ticks, that datetime.now() returns to a script run
Instants == {1}

\* a second reading of datetime.now() in the same script run, after a reading
\* of t: the same tick or the next one
LaterReads(t) == {t, t + 1}

\* str.lower() on the strings the model uses
Lower(s) ==
    CASE s = "Employed" -> "employed"
      [] s = "EMPLOYED" -> "employed"
      [] s = "Self-Employed" -> "self-employed"
      [] s = "Unemployed" -> "unemployed"
      [] s = "Student" -> "student"
      [] s = "Retired" -> "retired"
      [] s = "Admin" -> "admin"
      [] OTHER -> s

Max(a, b) == IF a >= b THEN a ELSE b
Min(a, b) == IF a <= b THEN a ELSE b

----------------------------------------------------------------------------
(* Utility functions *)

\* hashlib.sha256(password).hexdigest(): a digest, not the password
hash_password(password) == <<"sha256", password>>

verify_password(password, hashed) == hash_password(password) = hashed

\* the rows of a table that satisfy a WHERE clause, in rowid order
UsersNamed(username) == SelectSeq(users, LAMBDA r : r.username = username)

get_user_id(username) ==
    IF UsersNamed(username) = <<>> THEN None ELSE UsersNamed(username)[1].id

\* variant: the latest matching row is returned
get_user_profile_latest(user_id) ==
    LET rows == SelectSeq(user_profiles, LAMBDA r : r.user_id = user_id)
    IN IF rows = <<>> THEN <<>> ELSE <<rows[Len(rows)]>>

\* fetchone(): the first matching row, as a sequence of zero or one rows
get_user_profile(user_id) ==
    LET rows == SelectSeq(user_profiles, LAMBDA r : r.user_id = user_id)
    IN IF rows = <<>> THEN <<>> ELSE <<rows[1]>>

get_user_loans(user_id) == SelectSeq(loans, LAMBDA r : r.user_id = user_id)

----------------------------------------------------------------------------
(* Scoring functions; payment_history is in thousandths *)

IncomeFactor(income) ==
    IF income >= 100000 THEN 100
    ELSE IF income >= 70000 THEN 70
    ELSE IF income >= 50000 THEN 40
    ELSE IF income >= 30000 THEN 20
    ELSE 0

employment_factors(key) ==
    CASE key = "employed" -> 50
      [] key = "self-employed" -> 30
      [] key = "unemployed" -> 0 - 50
      [] key = "student" -> 10
      [] key = "retired" -> 20
      [] OTHER -> 0

\* variant: the 0.9 threshold taken inclusively
payment_factor_inclusive(payment_history) ==
    IF payment_history >= 900 THEN 50
    ELSE IF payment_history > 700 THEN 0
    ELSE 0 - 50

payment_factor(payment_history) ==
    IF payment_history > 900 THEN 50
    ELSE IF payment_history > 700 THEN 0
    ELSE 0 - 50

calculate_credit_score(income, employment_status, payment_history) ==
    Max(300, Min(850, 600 + IncomeFactor(income)
                          + employment_factors(Lower(employment_status))
                          + payment_factor(payment_history)))

\* variant: the lower age limit taken exclusively
AgeFactorExclusive(age) ==
    IF age > 25 /\ age <= 60 THEN 30
    ELSE IF age > 60 THEN 20
    ELSE 10

AgeFactor(age) ==
    IF age >= 25 /\ age <= 60 THEN 30
    ELSE IF age > 60 THEN 20
    ELSE 10

CivilEmploymentFactor(employment_status) ==
    IF Lower(employment_status) = "employed" THEN 30
    ELSE IF Lower(employment_status) = "self-employed" THEN 20
    ELSE 10

CreditInfluence(credit_score) ==
    IF credit_score >= 700 THEN 20
    ELSE IF credit_score >= 600 THEN 10
    ELSE 0

\* variant: the sum returned without the clamp
calculate_civil_score_unclamped(age, employment_status, credit_score) ==
    50 + AgeFactor(age) + CivilEmploymentFactor(employment_status)
       + CreditInfluence(credit_score)

calculate_civil_score(age, employment_status, credit_score) ==
    Max(0, Min(100, 50 + AgeFactor(age)
                       + CivilEmploymentFactor(employment_status)
                       + CreditInfluence(credit_score)))

----------------------------------------------------------------------------
(* Authentication functions *)

\* <<success, username of the row>>
login_user(username, password) ==
    LET rows == UsersNamed(username)
    IN IF rows # <<>> /\ verify_password(password, rows[1].password)
       THEN <<TRUE, rows[1].username>>
       ELSE <<FALSE, "">>

\* the INSERT of register_user; username is UNIQUE
UsernameTaken(username) == UsersNamed(username) # <<>>

NewUser(username, password, full_name, email) ==
    [id |-> Len(users) + 1, username |-> username,
     password |-> hash_password(password),
     full_name |-> full_name, email |-> email]

\* variant: the INSERT without the UNIQUE constraint
register_user_unchecked(username, password, full_name, email) ==
    [users |-> Append(users, NewUser(username, password, full_name, email)),
     ret |-> <<TRUE, "Registration successful">>]

register_user(username, password, full_name, email) ==
    IF UsernameTaken(username)
    THEN [users |-> users, ret |-> <<FALSE, "Username already exists">>]
    ELSE [users |-> Append(users, NewUser(username, password, full_name, email)),
          ret |-> <<TRUE, "Registration successful">>]

----------------------------------------------------------------------------
(* Sessions and the dispatcher of main() *)

LoggedOut ==
    [logged_in |-> FALSE, username |-> "", user_id |-> None,
     pc |-> "idle", loan_id |-> None, loan_amount |-> None,
     payment_amount |-> None]

LoggedOutMenu == {"Login", "Register"}
LoggedInMenu == {"Dashboard", "Credit Score", "Civil Score", "Apply for Loan",
                 "My Loans", "Admin Panel"}

Menu(s) == IF session[s].logged_in THEN LoggedInMenu ELSE LoggedOutMenu

\* variant: the Admin Panel branch without the username comparison
HandlerAnyUser(logged_in, username, choice) ==
    IF ~logged_in
    THEN IF choice = "Login" THEN "Login"
         ELSE IF choice = "Register" THEN "Register"
         ELSE "none"
    ELSE choice

\* the branch of the if/elif chain that a script run takes
Handler(logged_in, username, choice) ==
    IF ~logged_in
    THEN IF choice = "Login" THEN "Login"
         ELSE IF choice = "Register" THEN "Register"
         ELSE "none"
    ELSE IF choice = "Dashboard" THEN "Dashboard"
         ELSE IF choice = "Credit Score" THEN "Credit Score"
         ELSE IF choice = "Civil Score" THEN "Civil Score"
         ELSE IF choice = "Apply for Loan" THEN "Apply for Loan"
         ELSE IF choice = "My Loans" THEN "My Loans"
         ELSE IF choice = "Admin Panel" /\ username = "admin" THEN "Admin Panel"
         ELSE "none"

\* the view handlers that a script run executes
HandlersRun(logged_in, username, choice) ==
    {Handler(logged_in, username, choice)} \ {"none"}

InPc(pc) == Cardinality({s \in Sessions : session[s].pc = pc})

\* the store has room for one more row, counting the rows that script runs
\* in progress are about to insert
RoomForRow ==
    Len(users) + Len(user_profiles) + Len(loans) + Len(payments)
       + InPc("profile_form") + InPc("pay_insert") < MaxRows

\* session s is idle and a script run with this menu choice takes the handler
Runs(s, choice, handler) ==
    /\ session[s].pc = "idle"
    /\ choice \in Menu(s)
    /\ Handler(session[s].logged_in, session[s].username, choice) = handler

----------------------------------------------------------------------------
(* Initial state: init_db() has created the tables and seeded the admin *)

AdminRow ==
    [id |-> 1, username |-> "admin", password |-> hash_password("admin123"),
     full_name |-> "Administrator", email |-> "admin@loansystem.com"]

NoCall == [fn |-> "none", args |-> <<>>, ret |-> None]

InitStore ==
    /\ users = <<AdminRow>>
    /\ user_profiles = <<>>
    /\ loans = <<>>
    /\ payments = <<>>
    /\ session = [s \in Sessions |-> LoggedOut]
    /\ result = <<>>
    /\ audit = [loans |-> <<>>, payments |-> <<>>]
    /\ raised = NoException

Init ==
    /\ InitStore
    /\ call = NoCall

----------------------------------------------------------------------------
(* Login, Register, Logout *)

\* session_state after a successful login
LoggedIn(sess, user, user_id) ==
    [sess EXCEPT !.logged_in = TRUE, !.username = user, !.user_id = user_id]

Login(s, username, password) ==
    /\ Runs(s, "Login", "Login")
    /\ LET r == login_user(username, password)
       IN session' = [session EXCEPT ![s] =
              IF r[1]
              THEN LoggedIn(@, r[2], get_user_id(r[2]))
              ELSE @]
    /\ UNCHANGED <<dbVars, result, audit, call, raised>>

Register(s, new_username, new_password, confirm_password, full_name, email) ==
    /\ Runs(s, "Register", "Register")
    /\ RoomForRow \/ UsernameTaken(new_username)
    /\ IF new_password = confirm_password
       THEN LET r == register_user(new_username, new_password, full_name, email)
            IN /\ users' = r.users
               /\ result' = r.ret
       ELSE \* "Passwords do not match": register_user is not called
            UNCHANGED <<users, result>>
    /\ UNCHANGED <<user_profiles, loans, payments, session, audit, call,
                   raised>>

Logout(s) ==
    /\ session[s].pc = "idle"
    /\ session[s].logged_in
    /\ session' = [session EXCEPT ![s] = LoggedOut]
    /\ UNCHANGED <<dbVars, result, audit, call, raised>>

----------------------------------------------------------------------------
(* Profile rows and the tuples that SELECT * returns for them *)

\* column order of user_profiles; the model's rows carry no last_updated
ProfileColumns ==
    <<"id", "user_id", "age", "income", "employment_status", "credit_score",
      "civil_score", "last_updated">>

TextColumns == {"employment_status"}

\* NULL in a TEXT column
NullText == "NULL"

\* profile[k] of the Python tuple, k counted from 0
TupleItem(profile, k) == profile[ProfileColumns[k + 1]]

\* profile[k] is None
ItemIsNone(profile, k) ==
    IF ProfileColumns[k + 1] \in TextColumns
    THEN TupleItem(profile, k) = NullText
    ELSE TupleItem(profile, k) = None

\* int(profile[k]): <<TRUE, value>>, or <<FALSE, 0>> for the ValueError that
\* int() raises on an employment label
PyInt(profile, k) ==
    IF ProfileColumns[k + 1] \in TextColumns
    THEN <<FALSE, 0>>
    ELSE <<TRUE, TupleItem(profile, k)>>

\* "if profile and profile[4] is not None" fails: the page shows the form
ShowsProfileForm(profile) ==
    IF profile = <<>> THEN TRUE ELSE ItemIsNone(profile[1], 4)

NewProfile(user_id, age, income, employment_status, payment_history) ==
    LET credit_score ==
            calculate_credit_score(income, employment_status, payment_history)
        civil_score ==
            calculate_civil_score(age, employment_status, credit_score)
    IN [id |-> Len(user_profiles) + 1, user_id |-> user_id, age |-> age,
        income |-> income, employment_status |-> employment_status,
        credit_score |-> credit_score, civil_score |-> civil_score]


\* Credit Score page, form submitted: the script reads the profile first
SaveProfileRead(s) ==
    /\ Runs(s, "Credit Score", "Credit Score")
    /\ RoomForRow
    /\ ShowsProfileForm(get_user_profile(session[s].user_id))
    /\ session' = [session EXCEPT ![s].pc = "profile_form"]
    /\ UNCHANGED <<dbVars, result, audit, call, raised>>

\* ... and then inserts the row
SaveProfileInsert(s, age, income, employment_status, payment_history) ==
    /\ session[s].pc = "profile_form"
    /\ user_profiles' = Append(user_profiles,
           NewProfile(session[s].user_id, age, income, employment_status,
                      payment_history))
    /\ session' = [session EXCEPT ![s].pc = "idle"]
    /\ UNCHANGED <<users, loans, payments, result, audit, call, raised>>

----------------------------------------------------------------------------
(* Apply for Loan; interest rates are in tenths of a percent *)

LoanCreditScore(profile) ==
    IF ~ItemIsNone(profile, 4)
    THEN IF PyInt(profile, 4)[1] THEN PyInt(profile, 4)[2] ELSE 300
    ELSE 300

RateTable(credit_score) ==
    IF credit_score >= 750 THEN <<55, "Very High">>
    ELSE IF credit_score >= 700 THEN <<65, "High">>
    ELSE IF credit_score >= 650 THEN <<80, "Moderate">>
    ELSE IF credit_score >= 600 THEN <<105, "Low">>
    ELSE <<150, "Very Low">>

LoanIncome(profile) ==
    IF ~ItemIsNone(profile, 2) THEN TupleItem(profile, 2) ELSE 0

\* credit_score >= 650 and loan_amount <= income * 0.5
LoanStatus(credit_score, loan_amount, income) ==
    IF credit_score >= 650 /\ 2 * loan_amount <= income
    THEN "approved"
    ELSE "pending"

\* penalty_rate DEFAULT 0.05, in hundredths
DefaultPenaltyRate == 5

NewLoan(user_id, loan_amount, loan_term, profile, t1, t2) ==
    LET credit_score == LoanCreditScore(profile)
        status == LoanStatus(credit_score, loan_amount, LoanIncome(profile))
    IN [id |-> Len(loans) + 1, user_id |-> user_id, amount |-> loan_amount,
        interest_rate |-> RateTable(credit_score)[1],
        term_months |-> loan_term, status |-> status,
        application_date |-> strftime(t1),
        approved_date |-> IF status = "approved" THEN strftime(t1) ELSE None,
        due_date |-> IF status = "approved"
                     THEN strftime(t2 + timedelta(loan_term * 30))
                     ELSE None,
        penalty_rate |-> DefaultPenaltyRate]

ApplyForLoan(s, loan_amount, loan_term) ==
    /\ Runs(s, "Apply for Loan", "Apply for Loan")
    /\ RoomForRow
    /\ LET profile == get_user_profile(session[s].user_id)
       IN /\ profile # <<>>
          /\ \E t1 \in Instants :
             \E t2 \in LaterReads(t1) :
                LET loan == NewLoan(session[s].user_id, loan_amount, loan_term,
                                    profile[1], t1, t2)
                IN /\ loan.status = "approved" \/ t2 = t1
                   /\ loans' = Append(loans, loan)
                   /\ audit' = [audit EXCEPT !.loans = Append(@,
                          [credit_score |-> profile[1].credit_score,
                           income |-> profile[1].income,
                           amount |-> loan_amount,
                           status |-> loan.status,
                           approval_chance |->
                               RateTable(LoanCreditScore(profile[1]))[2]])]
    /\ UNCHANGED <<users, user_profiles, payments, session, result, call,
                   raised>>

----------------------------------------------------------------------------
(* My Loans / Make Payment; amounts in whole dollars *)

\* min_value of the payment number_input
MinPayment == 1

\* st.number_input(min_value, max_value) raises when its default value,
\* min_value, is above max_value
NumberInputRenders(min_value, max_value) == min_value <= max_value

\* the script run reaches the Make Payment button of the k-th listed loan
ReachesPayButton(my_loans, k) ==
    /\ my_loans[k].status = "approved"
    /\ \A j \in 1 .. k :
          my_loans[j].status = "approved"
              => NumberInputRenders(MinPayment, my_loans[j].amount)

PaymentInputs(max_value) ==
    {p \in {MinPayment, max_value} : MinPayment <= p /\ p <= max_value}

\* the script reads the user's loans and the button of loan k is pressed
PayRead(s, k, payment_amount) ==
    /\ Runs(s, "My Loans", "My Loans")
    /\ RoomForRow
    /\ LET my_loans == get_user_loans(session[s].user_id)
       IN /\ k \in 1 .. Len(my_loans)
          /\ ReachesPayButton(my_loans, k)
          /\ payment_amount \in PaymentInputs(my_loans[k].amount)
          /\ session' = [session EXCEPT ![s] =
                 [@ EXCEPT !.pc = "pay_insert", !.loan_id = my_loans[k].id,
                           !.loan_amount = my_loans[k].amount,
                           !.payment_amount = payment_amount]]
    /\ UNCHANGED <<dbVars, result, audit, call, raised>>

\* INSERT INTO payments, committed
PayInsert(s) ==
    /\ session[s].pc = "pay_insert"
    /\ payments' = Append(payments,
           [id |-> Len(payments) + 1, loan_id |-> session[s].loan_id,
            amount |-> session[s].payment_amount])
    /\ audit' = [audit EXCEPT !.payments = Append(@,
           [status |-> loans[session[s].loan_id].status,
            remaining |-> loans[session[s].loan_id].amount])]
    /\ session' = [session EXCEPT ![s].pc = "pay_update"]
    /\ UNCHANGED <<users, user_profiles, loans, result, call, raised>>

\* variant: a loan paid down to zero is closed
PaidLoanClosing(loan, loan_amount, payment_amount) ==
    [loan EXCEPT !.amount = loan_amount - payment_amount,
                 !.status = IF loan_amount - payment_amount = 0
                            THEN "rejected" ELSE @]

\* variant: the UPDATE is passed the payment instead of the new amount
PaidLoanToPayment(loan, loan_amount, payment_amount) ==
    [loan EXCEPT !.amount = payment_amount]

\* variant: the UPDATE decrements the stored amount
PaidLoanFromStored(loan, loan_amount, payment_amount) ==
    [loan EXCEPT !.amount = loan.amount - payment_amount]

\* UPDATE loans SET amount = new_amount
PaidLoan(loan, loan_amount, payment_amount) ==
    [loan EXCEPT !.amount = loan_amount - payment_amount]

PayUpdate(s) ==
    /\ session[s].pc = "pay_update"
    /\ loans' = [loans EXCEPT ![session[s].loan_id] =
           PaidLoan(@, session[s].loan_amount, session[s].payment_amount)]
    /\ session' = [session EXCEPT ![s] =
           [@ EXCEPT !.pc = "idle", !.loan_id = None, !.loan_amount = None,
                     !.payment_amount = None]]
    /\ UNCHANGED <<users, user_profiles, payments, result, audit, call,
                   raised>>

----------------------------------------------------------------------------
(* Admin Panel / Update Status *)

LoanExists(loan_id) == loan_id \in 1 .. Len(loans)

ApprovedLoan(loan, new_status, t1, t2) ==
    [loan EXCEPT !.status = new_status,
                 !.approved_date = strftime(t1),
                 !.due_date = strftime(t2 + timedelta(loan.term_months * 30))]

RestatedLoan(loan, new_status) == [loan EXCEPT !.status = new_status]

\* the loans table after the handler and the exception that ended it
UpdateStatusResult(loan_id, new_status, t1, t2) ==
    IF new_status = "approved"
    THEN IF LoanExists(loan_id)
         THEN [loans |-> [loans EXCEPT ![loan_id] =
                             ApprovedLoan(@, new_status, t1, t2)],
               raised |-> NoException]
         ELSE \* fetchone() is None: None[0] raises TypeError before the
              \* UPDATE
              [loans |-> loans, raised |-> "TypeError"]
    ELSE \* an UPDATE that matches no row changes nothing
         [loans |-> IF LoanExists(loan_id)
                    THEN [loans EXCEPT ![loan_id] = RestatedLoan(@, new_status)]
                    ELSE loans,
          raised |-> NoException]

UpdateStatus(s, loan_id, new_status) ==
    /\ Runs(s, "Admin Panel", "Admin Panel")
    /\ \E t1 \in Instants :
       \E t2 \in LaterReads(t1) :
          loans' = UpdateStatusResult(loan_id, new_status, t1, t2).loans
    /\ UNCHANGED <<users, user_profiles, payments, session, result, audit,
                   call, raised>>

\* the same run, with the exception that ended it kept
UpdateStatusRaising(s, loan_id, new_status) ==
    /\ Runs(s, "Admin Panel", "Admin Panel")
    /\ \E t1 \in Instants :
       \E t2 \in LaterReads(t1) :
          LET r == UpdateStatusResult(loan_id, new_status, t1, t2)
          IN /\ loans' = r.loans
             /\ raised' = r.raised
    /\ UNCHANGED <<users, user_profiles, payments, session, result, audit,
                   call>>

----------------------------------------------------------------------------

Next ==
    \/ \E s \in Sessions, u \in Usernames, p \in Passwords : Login(s, u, p)
    \/ \E s \in Sessions, u \in Usernames, p \in NewPasswords, c \in Passwords,
          f \in FullNames, e \in Emails : Register(s, u, p, c, f, e)
    \/ \E s \in Sessions : Logout(s)
    \/ \E s \in Sessions : SaveProfileRead(s)
    \/ \E s \in Sessions, a \in Ages, i \in Incomes, e \in EmploymentOptions,
          h \in PaymentHistories : SaveProfileInsert(s, a, i, e, h)
    \/ \E s \in Sessions, a \in LoanAmounts, t \in LoanTerms :
          ApplyForLoan(s, a, t)
    \/ \E s \in Sessions, k \in 1 .. Len(loans),
          p \in {MinPayment} \cup {loans[i].amount : i \in 1 .. Len(loans)} :
          PayRead(s, k, p)
    \/ \E s \in Sessions : PayInsert(s)
    \/ \E s \in Sessions : PayUpdate(s)
    \/ \E s \in Sessions, l \in 1 .. Len(loans) + 1, n \in StatusOptions :
          UpdateStatus(s, l, n)

Spec == Init /\ [][Next]_vars

(* The same operations with the exceptions of Update Status observed *)

RaisingNext ==
    \/ \E s \in Sessions, u \in Usernames, p \in Passwords : Login(s, u, p)
    \/ \E s \in Sessions, u \in Usernames, p \in NewPasswords, c \in Passwords,
          f \in FullNames, e \in Emails : Register(s, u, p, c, f, e)
    \/ \E s \in Sessions : Logout(s)
    \/ \E s \in Sessions : SaveProfileRead(s)
    \/ \E s \in Sessions, a \in Ages, i \in Incomes, e \in EmploymentOptions,
          h \in PaymentHistories : SaveProfileInsert(s, a, i, e, h)
    \/ \E s \in Sessions, a \in LoanAmounts, t \in LoanTerms :
          ApplyForLoan(s, a, t)
    \/ \E s \in Sessions, k \in 1 .. Len(loans),
          p \in {MinPayment} \cup {loans[i].amount : i \in 1 .. Len(loans)} :
          PayRead(s, k, p)
    \/ \E s \in Sessions : PayInsert(s)
    \/ \E s \in Sessions : PayUpdate(s)
    \/ \E s \in Sessions, l \in 1 .. Len(loans) + 1, n \in StatusOptions :
          UpdateStatusRaising(s, l, n)

RaisingSpec == Init /\ [][RaisingNext]_vars

(* The same operations executed one at a time: a script run starts only *)
(* when no other session's run is in progress.                          *)

Running == {s \in Sessions : session[s].pc # "idle"}

SeqNext == Next /\ Cardinality(Running') <= 1

SeqSpec == Init /\ [][SeqNext]_vars

----------------------------------------------------------------------------
(* The scoring functions on their own: a call is drawn from the input sets *)
(* below and then evaluated.                                                *)

ScoreIncomes == {0, 29999, 30000, 49999, 50000, 69999, 70000, 99999, 100000,
                 120000}
ScoreEmployments == {"employed", "Employed", "EMPLOYED", "self-employed",
                     "Self-Employed", "unemployed", "Unemployed", "student",
                     "Student", "retired", "Retired", "contractor"}
ScoreRatios == {0, 500, 700, 701, 900, 901, 950, 1000}
ScoreAges == {0, 18, 24, 25, 30, 60, 61, 100}
ScoreCredits == {300, 599, 600, 699, 700, 720, 850}

CreditCalls ==
    {[fn |-> "calculate_credit_score", args |-> <<i, e, h>>, ret |-> None] :
        i \in ScoreIncomes, e \in ScoreEmployments, h \in ScoreRatios}

CivilCalls ==
    {[fn |-> "calculate_civil_score", args |-> <<a, e, c>>, ret |-> None] :
        a \in ScoreAges, e \in ScoreEmployments, c \in ScoreCredits}

ScoreInit ==
    /\ InitStore
    /\ call \in CreditCalls \cup CivilCalls

CallCreditScore ==
    /\ call.fn = "calculate_credit_score"
    /\ call.ret = None
    /\ call' = [call EXCEPT !.ret =
           calculate_credit_score(call.args[1], call.args[2], call.args[3])]
    /\ UNCHANGED <<dbVars, session, result, audit, raised>>

CallCivilScore ==
    /\ call.fn = "calculate_civil_score"
    /\ call.ret = None
    /\ call' = [call EXCEPT !.ret =
           calculate_civil_score(call.args[1], call.args[2], call.args[3])]
    /\ UNCHANGED <<dbVars, session, result, audit, raised>>

ScoreNext ==
    \/ CallCreditScore
    \/ CallCivilScore

ScoreSpec == ScoreInit /\ [][ScoreNext]_vars

----------------------------------------------------------------------------
(* My Loans / overdue check of one listed loan, on its own: a loan row and  *)
(* the two readings of the clock are drawn from the sets below.             *)

\* column order of loans: loan[k] of the tuple that SELECT * returns
LoanColumns ==
    <<"id", "user_id", "amount", "interest_rate", "term_months", "status",
      "application_date", "approved_date", "due_date", "penalty_rate">>

LoanItem(loan, k) == loan[LoanColumns[k + 1]]

\* datetime.strptime(text, "%Y-%m-%d %H:%M:%S"): the instant of a stored second
strptime(seconds) == seconds * TicksPerSecond

\* timedelta.days of a non-negative difference of instants
Days(delta) == delta \div timedelta(1)

\* f"{x:,.2f}" of x = numerator / denominator dollars, as a number of cents
Format2f(numerator, denominator) ==
    LET cents == 100 * numerator
    IN IF 2 * (cents % denominator) >= denominator
       THEN cents \div denominator + 1
       ELSE cents \div denominator

\* nothing is shown for the loan
NotOverdue == <<"none">>

\* variant: a loan counts as overdue from the due instant on
OverdueCheckInclusive(loan, now1, now2) ==
    IF LoanItem(loan, 8) = None
    THEN NotOverdue
    ELSE LET due_date == strptime(LoanItem(loan, 8))
         IN IF now1 >= due_date
            THEN LET days_overdue == Days(now2 - due_date)
                 IN <<"overdue", days_overdue,
                      Format2f(LoanItem(loan, 2) * LoanItem(loan, 9)
                                  * days_overdue, 100 * 365)>>
            ELSE NotOverdue

\* what the page shows: <<"overdue", days_overdue, penalty in cents>>;
\* penalty_rate is in hundredths
OverdueCheck(loan, now1, now2) ==
    IF LoanItem(loan, 8) = None
    THEN NotOverdue
    ELSE LET due_date == strptime(LoanItem(loan, 8))
         IN IF now1 > due_date
            THEN LET days_overdue == Days(now2 - due_date)
                 IN <<"overdue", days_overdue,
                      Format2f(LoanItem(loan, 2) * LoanItem(loan, 9)
                                  * days_overdue, 100 * 365)>>
            ELSE NotOverdue

\* remaining amounts of the listed loan
OverdueAmounts == {0, 1, 100, 10000}

\* a loan as Apply for Loan stores it
PendingLoan(amount) ==
    [id |-> 1, user_id |-> 1, amount |-> amount, interest_rate |-> 150,
     term_months |-> 6, status |-> "pending", application_date |-> 0,
     approved_date |-> None, due_date |-> None,
     penalty_rate |-> DefaultPenaltyRate]

\* pending loans and loans approved by Update Status
OverdueLoans ==
    {PendingLoan(a) : a \in OverdueAmounts}
       \cup UNION {{ApprovedLoan(PendingLoan(a), "approved", t1, t2) :
                       t2 \in LaterReads(t1)} :
                          a \in OverdueAmounts, t1 \in Instants}

\* offsets of the clock from the due date of a six-month loan, in ticks
OverdueOffsets ==
    {0 - 1, 0, 1, timedelta(1) - 1, timedelta(1), timedelta(73) - 1,
     timedelta(73), timedelta(365)}

OverdueCalls ==
    {[fn |-> "overdue check", args |-> <<loan, now1, now2>>, ret |-> <<>>] :
        loan \in OverdueLoans,
        now1 \in {timedelta(180) + d : d \in OverdueOffsets},
        now2 \in {timedelta(180) + d + r : d \in OverdueOffsets, r \in {0, 1}}}

OverdueInit ==
    /\ InitStore
    /\ call \in OverdueCalls
    /\ call.args[3] \in LaterReads(call.args[2])

ShowOverdue ==
    /\ call.fn = "overdue check"
    /\ call.ret = <<>>
    /\ call' = [call EXCEPT !.ret =
           OverdueCheck(call.args[1], call.args[2], call.args[3])]
    /\ UNCHANGED <<dbVars, session, result, audit, raised>>

OverdueNext == ShowOverdue

OverdueSpec == OverdueInit /\ [][OverdueNext]_vars

----------------------------------------------------------------------------
(* Properties *)

ThirtyDayMonths(term_months) == term_months * 30 * 86400

\* C1: every payment row was inserted while the stored status of its loan
\* was 'approved', also when an admin changes the status between the page's
\* read of the loan and the payment write.
C1_PaymentsOnlyOnApprovedLoans ==
    \A i \in 1 .. Len(payments) : audit.payments[i].status = "approved"

\* C2: every accepted payment p satisfies 0 < p <= the remaining amount of
\* its loan at the time it is recorded, and no remaining amount is negative.
C2_PaymentsWithinRemaining ==
    /\ \A i \in 1 .. Len(payments) :
          /\ 0 < payments[i].amount
          /\ payments[i].amount <= audit.payments[i].remaining
    /\ \A i \in 1 .. Len(loans) : loans[i].amount >= 0

\* C3: a step changes the status of a loan only if it is an admin Update
\* Status, and a loan appears only by an applicant's submission, which fixes
\* its first status; payments, paying down to zero and all other operations
\* leave every status alone.
C3_StatusChangesOnlyByUpdateStatus ==
    [][/\ (\E i \in 1 .. Len(loans) : loans'[i].status # loans[i].status)
            => \E s \in Sessions, l \in 1 .. Len(loans), n \in StatusOptions :
                  UpdateStatus(s, l, n)
       /\ Len(loans') # Len(loans)
            => /\ \E s \in Sessions, a \in LoanAmounts, t \in LoanTerms :
                     ApplyForLoan(s, a, t)
               /\ loans'[Len(loans')].status \in {"approved", "pending"}
               /\ \A i \in 1 .. Len(loans) : loans'[i] = loans[i]]_vars

\* C3 witness: a loan paid down to zero by a recorded payment is still approved
C3_Witness ==
    \E i \in 1 .. Len(loans) :
       /\ loans[i].amount = 0
       /\ loans[i].status = "approved"
       /\ \E j \in 1 .. Len(payments) : payments[j].loan_id = loans[i].id

\* C4: a submitted loan is created 'approved' exactly when the credit score
\* stored in the applicant's profile is >= 650 and the amount is at most half
\* of the income stored in that profile, and 'pending' otherwise.
C4_AutoApprovalRule ==
    \A i \in 1 .. Len(audit.loans) :
       LET a == audit.loans[i]
       IN /\ a.status \in {"approved", "pending"}
          /\ a.status = "approved"
               <=> (a.credit_score >= 650 /\ 2 * a.amount <= a.income)

\* C5: an approval sets the approval timestamp to the time of the action and
\* the due date to that time plus term_months x 30 days; every approved loan
\* has both, and a loan never approved has neither.
C5_ApprovalSetsDates ==
    \A i \in 1 .. Len(loans) :
       /\ loans[i].status = "approved" => loans[i].approved_date # None
       /\ (loans[i].approved_date = None) <=> (loans[i].due_date = None)
       /\ loans[i].approved_date # None
            => loans[i].due_date
                 = loans[i].approved_date + ThirtyDayMonths(loans[i].term_months)

UniqueUsernames ==
    \A i, j \in 1 .. Len(users) :
       users[i].username = users[j].username => i = j

\* C6: usernames are unique in every state, and a registration under a
\* username that exists, the seeded admin included, returns failure with
\* 'Username already exists' and leaves the users table as it was.
C6_DuplicateUsernameRejected ==
    [][/\ UniqueUsernames
       /\ UniqueUsernames'
       /\ \A s \in Sessions, u \in Usernames, p \in NewPasswords,
             f \in FullNames, e \in Emails :
             (UsernameTaken(u) /\ Register(s, u, p, p, f, e))
                => /\ users' = users
                   /\ result' = <<FALSE, "Username already exists">>]_vars

\* C6 witness: a registration under a registered username has been refused
C6_Witness ==
    /\ result = <<FALSE, "Username already exists">>
    /\ Len(users) = 2
    /\ users[1] = AdminRow

IsAdminSession(s) == session[s].logged_in /\ session[s].username = "admin"

\* C7: a step changes the status, approval timestamp or due date of a loan
\* only if it is an Update Status run by a session logged in as "admin".
C7_OnlyAdminSessionUpdatesLoans ==
    [][(\E i \in 1 .. Len(loans) :
           \/ loans'[i].status # loans[i].status
           \/ loans'[i].approved_date # loans[i].approved_date
           \/ loans'[i].due_date # loans[i].due_date)
         => \E s \in Sessions :
               /\ IsAdminSession(s)
               /\ \E l \in 1 .. Len(loans), n \in StatusOptions :
                     UpdateStatus(s, l, n)]_vars

\* C7 witness: a session logged in under another username has the Admin Panel
\* on its menu while a loan updated by the admin exists
C7_Witness ==
    /\ \E s \in Sessions :
          /\ session[s].logged_in
          /\ session[s].username # "admin"
          /\ "Admin Panel" \in Menu(s)
    /\ \E i \in 1 .. Len(loans) : loans[i].status = "rejected"

CreditScoreRange ==
    \A i \in ScoreIncomes, e \in ScoreEmployments, h \in ScoreRatios :
       calculate_credit_score(i, e, h) \in 300 .. 850

CivilScoreRange ==
    \A a \in ScoreAges, e \in ScoreEmployments, c \in ScoreCredits :
       calculate_civil_score(a, e, c) \in 0 .. 100

\* C8: every stored profile row holds the results of the two scoring
\* functions, credit_score in [300,850] and civil_score in [0,100], and the
\* functions stay in these ranges for all inputs.
C8_ScoresInRange ==
    /\ \A i \in 1 .. Len(user_profiles) :
          LET r == user_profiles[i]
          IN /\ r.credit_score \in 300 .. 850
             /\ r.civil_score \in 0 .. 100
             /\ \E h \in PaymentHistories :
                   r.credit_score =
                      calculate_credit_score(r.income, r.employment_status, h)
             /\ r.civil_score =
                   calculate_civil_score(r.age, r.employment_status,
                                         r.credit_score)
    /\ CreditScoreRange
    /\ CivilScoreRange

\* C8 witness: a saved profile whose civil score is the clamped maximum
C8_Witness ==
    \E i \in 1 .. Len(user_profiles) :
       /\ user_profiles[i].civil_score = 100
       /\ user_profiles[i].credit_score = 800

(* The formulas of sections 4.2 and 4.3, written from their text *)

EmployedSpellings == {"employed", "Employed", "EMPLOYED"}
SelfEmployedSpellings == {"self-employed", "Self-Employed"}
StudentSpellings == {"student", "Student"}
RetiredSpellings == {"retired", "Retired"}
UnemployedSpellings == {"unemployed", "Unemployed"}

Clamp(lo, hi, x) == IF x < lo THEN lo ELSE IF x > hi THEN hi ELSE x

CreditScoreFormula(income, employment, ratio) ==
    Clamp(300, 850,
          600
          + (IF income >= 100000 THEN 100 ELSE IF income >= 70000 THEN 70
             ELSE IF income >= 50000 THEN 40 ELSE IF income >= 30000 THEN 20
             ELSE 0)
          + (IF employment \in EmployedSpellings THEN 50
             ELSE IF employment \in SelfEmployedSpellings THEN 30
             ELSE IF employment \in StudentSpellings THEN 10
             ELSE IF employment \in RetiredSpellings THEN 20
             ELSE IF employment \in UnemployedSpellings THEN 0 - 50
             ELSE 0)
          + (IF ratio > 900 THEN 50 ELSE IF ratio > 700 THEN 0 ELSE 0 - 50))

CivilScoreFormula(age, employment, credit) ==
    Clamp(0, 100,
          50
          + (IF age \in 25 .. 60 THEN 30 ELSE IF age > 60 THEN 20 ELSE 10)
          + (IF employment \in EmployedSpellings THEN 30
             ELSE IF employment \in SelfEmployedSpellings THEN 20
             ELSE 10)
          + (IF credit >= 700 THEN 20 ELSE IF credit >= 600 THEN 10 ELSE 0))

\* C9: calculate_credit_score returns the clamp to [300,850] of 600 plus the
\* income, employment (case-insensitive) and payment-history bonuses, for
\* every income, employment status and ratio.
C9_CreditScoreFormula ==
    (call.fn = "calculate_credit_score" /\ call.ret # None)
       => call.ret = CreditScoreFormula(call.args[1], call.args[2], call.args[3])

\* C9 witness: (120000, "employed", 0.95) has been evaluated to 800
C9_Witness ==
    /\ call.fn = "calculate_credit_score"
    /\ call.args = <<120000, "employed", 950>>
    /\ call.ret = 800

\* C10: calculate_civil_score returns the clamp to [0,100] of 50 plus the
\* age, employment (case-insensitive) and credit-tier bonuses, for every age,
\* employment status and credit score.
C10_CivilScoreFormula ==
    (call.fn = "calculate_civil_score" /\ call.ret # None)
       => call.ret = CivilScoreFormula(call.args[1], call.args[2], call.args[3])

\* C10 witness: (30, "Employed", 720) sums to 130 and has been evaluated to 100
C10_Witness ==
    /\ call.fn = "calculate_civil_score"
    /\ call.args = <<30, "Employed", 720>>
    /\ call.ret = 100

(* The breakpoint table of section 4.4, written from its text: rate in *)
(* tenths of a percent and approval-chance label                         *)
RateAndLabel(credit_score) ==
    CASE credit_score >= 750 -> <<55, "Very High">>
      [] credit_score \in 700 .. 749 -> <<65, "High">>
      [] credit_score \in 650 .. 699 -> <<80, "Moderate">>
      [] credit_score \in 600 .. 649 -> <<105, "Low">>
      [] OTHER -> <<150, "Very Low">>

\* C11: the interest rate stored on a newly submitted loan and the
\* approval-chance label shown with it are the table's entry for the credit
\* score of the applicant's profile (>=750 5.5/'Very High', >=700 6.5/'High',
\* >=650 8.0/'Moderate', >=600 10.5/'Low', otherwise 15.0/'Very Low').
C11_RateFollowsCreditScore ==
    \A i \in 1 .. Len(audit.loans) :
       <<loans[i].interest_rate, audit.loans[i].approval_chance>>
          = RateAndLabel(audit.loans[i].credit_score)

\* C12: an Update Status run that names a loan id matching no loan row ends
\* without an exception and leaves all four tables as they were, for each of
\* the new statuses 'pending', 'approved' and 'rejected'.
C12_UnknownLoanIdIsNoError ==
    [][\A s \in Sessions, n \in StatusOptions :
          \A l \in 1 .. Len(loans) + 1 :
             (~LoanExists(l) /\ UpdateStatusRaising(s, l, n))
                => /\ raised' = NoException
                   /\ dbVars' = dbVars]_vars

(* The overdue rule of section 4.4, written from its text: the penalty in *)
(* cents for a rate in hundredths                                           *)
WholeDays(seconds) == seconds \div 86400

PenaltyFormula(remainingAmount, penaltyRate, daysOverdue) ==
    LET cents == remainingAmount * penaltyRate * daysOverdue
    IN IF 2 * (cents % 365) >= 365 THEN cents \div 365 + 1 ELSE cents \div 365

\* C13: the page shows a penalty for a loan only when the clock is past the
\* loan's due date; the days shown are the whole days elapsed since the due
\* date, and the penalty is remaining amount x penalty rate x days / 365,
\* whatever the other columns hold.
C13_OverduePenalty ==
    (call.fn = "overdue check" /\ call.ret # <<>>)
       => LET loan == call.args[1]
              now1 == call.args[2]
              now2 == call.args[3]
          IN /\ call.ret # NotOverdue
                  <=> (loan.due_date # None
                          /\ now1 > loan.due_date * TicksPerSecond)
             /\ call.ret # NotOverdue
                  => /\ call.ret[2]
                          = WholeDays(strftime(now2) - loan.due_date)
                     /\ call.ret[3]
                          = PenaltyFormula(loan.amount, loan.penalty_rate,
                                           call.ret[2])

\* C13 witness: amount 10000 at the default rate, 73 days overdue, shows 100.00
C13_Witness ==
    /\ call.fn = "overdue check"
    /\ call.args[1].amount = 10000
    /\ call.args[1].penalty_rate = DefaultPenaltyRate
    /\ call.ret = <<"overdue", 73, 10000>>

PaymentsOf(loan_id) ==
    {j \in 1 .. Len(payments) : payments[j].loan_id = loan_id}

\* C14: the payment path has no lock, version check or conditional update:
\* once a run has read a loan, its INSERT and its UPDATE go ahead whatever
\* the other sessions have written since, and the UPDATE stores the amount
\* the run read minus its own payment, so a payment written in between is
\* lost.
C14_PaymentWritesFromItsOwnRead ==
    [][\A s \in Sessions :
          /\ session[s].pc = "pay_insert" => ENABLED PayInsert(s)
          /\ session[s].pc = "pay_update" => ENABLED PayUpdate(s)
          /\ PayUpdate(s)
               => loans'[session[s].loan_id].amount
                     = session[s].loan_amount - session[s].payment_amount]_vars

\* C14 witness: both sessions have finished a payment on the same loan, both
\* payment rows are recorded, and the loan's amount is lower than at its
\* application by one of the two payments only
C14_Witness ==
    /\ \A s \in Sessions : session[s].pc = "idle"
    /\ \E i \in 1 .. Len(loans) :
          /\ Cardinality(PaymentsOf(i)) = 2
          /\ \E j \in PaymentsOf(i) :
                loans[i].amount = audit.loans[i].amount - payments[j].amount

\* C15: every script run executes exactly one view handler, never none and
\* never two, whatever the session's login flag and username and whichever
\* entry of its menu is selected.
C15_ExactlyOneHandler ==
    \A s \in Sessions :
       \A choice \in Menu(s) :
          Cardinality(HandlersRun(session[s].logged_in, session[s].username,
                                  choice)) = 1

ProfilesOf(user_id) ==
    {i \in 1 .. Len(user_profiles) : user_profiles[i].user_id = user_id}

\* C16: a submitted profile form always inserts one more profile row, also
\* for a user who has a profile row already, and get_user_profile returns
\* the earliest row of the user before and after, so that the readers never
\* see the rows of later submissions.
C16_FirstProfileRowIsRead ==
    [][/\ \A s \in Sessions, a \in Ages, i \in Incomes,
             e \in EmploymentOptions, h \in PaymentHistories :
             SaveProfileInsert(s, a, i, e, h)
                => /\ Len(user_profiles') = Len(user_profiles) + 1
                   /\ user_profiles'[Len(user_profiles')].user_id
                         = session[s].user_id
                   /\ \A k \in 1 .. Len(user_profiles) :
                         user_profiles'[k] = user_profiles[k]
                   /\ get_user_profile(session[s].user_id) # <<>>
                         => get_user_profile(session[s].user_id)'
                               = get_user_profile(session[s].user_id)
       /\ \A u \in 1 .. Len(users') :
             \A k \in (ProfilesOf(u))' :
                /\ (get_user_profile(u))' # <<>>
                /\ (get_user_profile(u))'[1].id <= user_profiles'[k].id]_vars

\* C16 witness: a user has two profile rows and get_user_profile returns the
\* earlier one, not the row of the later submission
C16_Witness ==
    \E u \in 1 .. Len(users) :
       \E j, k \in ProfilesOf(u) :
          /\ j < k
          /\ get_user_profile(u) = <<user_profiles[j]>>
          /\ get_user_profile(u) # <<user_profiles[k]>>

RECURSIVE SumOfPayments(_, _)
\* the sum of the first n payment rows that belong to the loan
SumOfPayments(loan_id, n) ==
    IF n = 0 THEN 0
    ELSE SumOfPayments(loan_id, n - 1)
            + (IF payments[n].loan_id = loan_id THEN payments[n].amount ELSE 0)

Conserved ==
    Running = {}
       => \A i \in 1 .. Len(loans) :
             audit.loans[i].amount
                = loans[i].amount + SumOfPayments(i, Len(payments))

\* C17: with script runs executed one at a time, between runs every loan's
\* amount at application equals its remaining amount plus the sum of its
\* payment rows; a loan's amount changes only by the UPDATE of Make Payment,
\* which lowers it by the payment just inserted; payment rows are only
\* appended, one per payment, and never changed; no amount ever grows.
C17_SequentialConservation ==
    [][/\ Conserved
       /\ Conserved'
       /\ \A i \in 1 .. Len(loans) :
             /\ loans'[i].amount <= loans[i].amount
             /\ loans'[i].amount # loans[i].amount
                  => \E s \in Sessions :
                        /\ PayUpdate(s)
                        /\ session[s].loan_id = i
                        /\ payments[Len(payments)].loan_id = i
                        /\ loans'[i].amount
                              = loans[i].amount - payments[Len(payments)].amount
       /\ Len(payments') \in {Len(payments), Len(payments) + 1}
       /\ \A j \in 1 .. Len(payments) : payments'[j] = payments[j]
       /\ Len(payments') # Len(payments)
            => \E s \in Sessions : PayInsert(s)]_vars

\* C17 witness: between runs, a loan with two payment rows whose amount is
\* lower than at its application by both payments together
C17_Witness ==
    /\ Running = {}
    /\ \E i \in 1 .. Len(loans) :
          /\ Cardinality(PaymentsOf(i)) = 2
          /\ loans[i].amount < audit.loans[i].amount
          /\ loans[i].amount
                = audit.loans[i].amount - SumOfPayments(i, Len(payments))

====
